---- MODULE Spec2Model ----
(***************************************************************************)
(* A model of kabka.py: the locale extractor (locale_used), the memoized   *)
(* tag validator (_validated_lang), the probe runner (test_one) and the    *)
(* batch coordinator (report_mode).                                        *)
(*                                                                         *)
(* Text is modelled as a sequence of one-character strings, so that the    *)
(* regular expressions, startswith and == of the source are computed on    *)
(* characters.  Python's None is the empty sequence: the two patterns of   *)
(* locale_used capture at least one character, so a captured tag is never  *)
(* empty, and the caller tests `not got`.                                  *)
(***************************************************************************)
EXTENDS Naturals, Sequences, FiniteSets, TLC

VARIABLES
    html, cookie, got, xpc,   \* locale_used: its two arguments, its result, called or not
    loose,                    \* args.loose, handed to test_one
    server, failing,          \* the environment: what the endpoint serves, which requests fail
    validTags,                \* the environment: the tags the langcodes oracle accepts
    phase, idx, results,      \* per target: position of test_one, next code, its results dict
    pending,                  \* per target: the tag whose oracle call is in flight
    cache, calls, answers,    \* lru_cache of _validated_lang, oracle calls and answers per tag
    jobs,                     \* the targets probed in this run
    coord, consumed, report,  \* report_mode: position, futures taken from as_completed, report
    printed                   \* the rows printed at the end of the run

vars == <<html, cookie, got, xpc, loose, server, failing, validTags, phase, idx,
          results, pending, cache, calls, answers, jobs, coord, consumed, report,
          printed>>

(***************************************************************************)
(* Characters and text                                                     *)
(***************************************************************************)
Lower == {"a","b","c","d","e","f","g","h","i","j","k","l","m",
          "n","o","p","q","r","s","t","u","v","w","x","y","z"}
Upper == {"A","B","C","D","E","F","G","H","I","J","K","L","M",
          "N","O","P","Q","R","S","T","U","V","W","X","Y","Z"}
Digit == {"0","1","2","3","4","5","6","7","8","9"}

\* [-a-zA-Z]
TagChar == Lower \cup Upper \cup {"-"}
\* \w
WordChar == Lower \cup Upper \cup Digit \cup {"_"}
\* ["\']
Quote == {"\"", "'"}
\* every character that occurs in a text of the model
Char == WordChar \cup TagChar \cup Quote \cup {"<", ">", " ", "=", ":", ";", "/"}
\* [^>]
NotGt == Char \ {">"}

None == <<>>

\* s[i:i+len(lit)] == lit
HasAt(s, i, lit) ==
    /\ i >= 1
    /\ i + Len(lit) - 1 <= Len(s)
    /\ SubSeq(s, i, i + Len(lit) - 1) = lit

\* str.startswith
StartsWith(s, p) == HasAt(s, 1, p)

\* \b before position i: exactly one of s[i-1], s[i] is a word character
WordBoundary(s, i) ==
    LET before == i - 1 >= 1 /\ i - 1 <= Len(s) /\ s[i - 1] \in WordChar
        after  == i >= 1 /\ i <= Len(s) /\ s[i] \in WordChar
    IN  before # after

Max(S) == CHOOSE x \in S : \A y \in S : y <= x
Min(S) == CHOOSE x \in S : \A y \in S : x <= y

\* the length of the longest run of characters of class cls that starts at i
RunLen(s, i, cls) ==
    LET stops == {j \in i .. Len(s) : s[j] \notin cls}
    IN  IF i > Len(s) THEN 0
        ELSE IF stops = {} THEN Len(s) - i + 1
        ELSE Min(stops) - i

(***************************************************************************)
(* locale_used                                                             *)
(***************************************************************************)
LtHtml  == <<"<","h","t","m","l">>
LangEq  == <<"l","a","n","g","=">>
AeLEq   == <<"a","e","=","l","=">>

\* ([-a-zA-Z]+) at i: the captured group, greedy; None when it does not match
TagGroup(s, i) == SubSeq(s, i, i + RunLen(s, i, TagChar) - 1)

\* \blang=["\']([-a-zA-Z]+) matches at j
LangTail(s, j) ==
    /\ WordBoundary(s, j)
    /\ HasAt(s, j, LangEq)
    /\ j + 5 <= Len(s)
    /\ s[j + 5] \in Quote
    /\ TagGroup(s, j + 6) # None

\* <html[^>]*\blang=["\']([-a-zA-Z]+) tried at start i: the lengths k of [^>]*
\* for which the rest of the pattern matches
HtmlSkips(s, i) ==
    IF ~HasAt(s, i, LtHtml) THEN {}
    ELSE {k \in 0 .. RunLen(s, i + 5, NotGt) : LangTail(s, i + 5 + k)}

\* re.search(r'<html[^>]*\blang=["\']([-a-zA-Z]+)', html): leftmost start, and
\* at that start the greedy [^>]* keeps the longest skip that lets the rest match
HtmlSearch(s) ==
    LET starts == {i \in 1 .. Len(s) : HtmlSkips(s, i) # {}}
    IN  IF starts = {} THEN None
        ELSE LET i == Min(starts)
                 k == Max(HtmlSkips(s, i))
             IN  TagGroup(s, i + 5 + k + 6)

\* re.search(r'ae=l=([-a-zA-Z]+)', cookie or ""): leftmost match
CookieSearch(s) ==
    LET starts == {i \in 1 .. Len(s) :
                     HasAt(s, i, AeLEq) /\ TagGroup(s, i + 5) # None}
    IN  IF starts = {} THEN None ELSE TagGroup(s, Min(starts) + 5)

\* the cookie is searched before the body
locale_used_cookie_first(h, c) ==
    LET n == CookieSearch(c)
    IN  IF n # None THEN n
        ELSE LET m == HtmlSearch(h)
             IN  IF m # None THEN m ELSE None

locale_used(h, c) ==
    LET m == HtmlSearch(h)
    IN  IF m # None THEN m
        ELSE LET n == CookieSearch(c)
             IN  IF n # None THEN n ELSE None

(***************************************************************************)
(* Reference data                                                          *)
(***************************************************************************)
oci == <<"o","c","i">>
kab == <<"k","a","b">>
kam == <<"k","a","m">>
kac == <<"k","a","c">>
kal == <<"k","a","l">>
kar == <<"k","a","r">>
kat == <<"k","a","t">>
kau == <<"k","a","u">>
kaw == <<"k","a","w">>
kaz == <<"k","a","z">>

\* the keys of CODES, in insertion order (the order test_one iterates in)
CODES == <<oci, kab, kam, kac, kal, kar, kat, kau, kaw, kaz>>
CodeSet == {CODES[i] : i \in 1 .. Len(CODES)}

SITES == ("1" :> <<"DuckDuckGo", "https://duckduckgo.com/q=test ">>)
      @@ ("2" :> <<"Nextcloud", "https://demo2.nextcloud.com/index.php/login ">>)
DEVICES == ("1" :> <<"desktop", "">>)
        @@ ("2" :> <<"mobile", "Mozilla/5.0 (Android 13; Mobile; rv:109.0) Gecko/109.0 Firefox/119.0">>)

oc == <<"o","c">>
en == <<"e","n">>
\* FALLBACKS
FALLBACKS == {en}

\* combos of report_mode
combos == <<(<<"1", "1">>), (<<"1", "2">>), (<<"2", "1">>), (<<"2", "2">>)>>
Combos == {combos[i] : i \in 1 .. Len(combos)}

(***************************************************************************)
(* The environment: the endpoint and the langcodes oracle                  *)
(***************************************************************************)
enUS == <<"e","n","-","U","S">>
de   == <<"d","e">>
ka   == <<"k","a">>
GE   == <<"-","G","E">>

\* the tags an endpoint of the model answers every request with
FixedTags == {oc, en, enUS, de, kab, ka}

\* what an endpoint does with the Accept-Language code it is sent
Servers ==
    {[kind |-> "fixed", tag |-> t] : t \in FixedTags}
    \cup {[kind |-> k, tag |-> None] : k \in {"echo", "region", "cookie", "nohint"}}

\* every tag an endpoint of the model can serve
TagUniverse == FixedTags \cup CodeSet \cup {c \o GE : c \in CodeSet}

\* <html lang="TAG">
HtmlWithLang(tag) ==
    LtHtml \o <<" ">> \o LangEq \o <<"\"">> \o tag \o <<"\"", ">">>
HtmlPlain == LtHtml \o <<">">>
\* ae=l=TAG; path=/
CookieWith(tag) == AeLEq \o tag \o <<";", " ", "p", "=", "/">>

\* r.text and r.headers.get("Set-Cookie", "") of the response to a request
Response(srv, code) ==
    CASE srv.kind = "fixed"  -> [text |-> HtmlWithLang(srv.tag), cookie |-> <<>>]
      [] srv.kind = "echo"   -> [text |-> HtmlWithLang(code), cookie |-> <<>>]
      [] srv.kind = "region" -> [text |-> HtmlWithLang(code \o GE), cookie |-> <<>>]
      [] srv.kind = "cookie" -> [text |-> HtmlPlain, cookie |-> CookieWith(code)]
      [] srv.kind = "nohint" -> [text |-> HtmlPlain, cookie |-> <<>>]

\* locale_used(r.text, r.headers.get("Set-Cookie", "")) for each response of the
\* model's endpoints (line 77)
Served == [srv \in Servers |-> [c \in CodeSet |->
             locale_used(Response(srv, c).text, Response(srv, c).cookie)]]

\* the oracle is pure: the set of tags it accepts is fixed for the run
Oracles == {TagUniverse, {}, {t \in TagUniverse : Len(t) <= 3}}

(***************************************************************************)
(* _validated_lang: the function under lru_cache(maxsize=None)             *)
(***************************************************************************)
\* Language.get(tag).is_valid(), an exception counting as invalid: is the
\* result something other than None
OracleSays(tag) == tag \in validTags

\* the result of a miss is not stored
CachePut_dropped(c, tag, v) == c

\* the cache after the wrapper stores the result of a miss
CachePut(c, tag, v) == (tag :> v) @@ c

(***************************************************************************)
(* test_one: one iteration of its loop                                     *)
(***************************************************************************)
NoHint == <<"no locale hint">>
InvalidLocale(tag) == <<"invalid locale '">> \o tag \o <<"'">>
TransportMsg == <<"RequestException">>

\* the fallback rule is not restricted to oci and kab
Verdict_fallback_any_code(code, tag, valid, lse) ==
    IF tag = None THEN <<"unk", NoHint>>
    ELSE IF ~valid THEN <<"unk", InvalidLocale(tag)>>
    ELSE IF code = oci /\ tag = oc THEN <<"alt", tag>>
    ELSE IF code = kab /\ StartsWith(tag, kab) THEN <<"alt", tag>>
    ELSE IF \E f \in FALLBACKS : StartsWith(tag, f) THEN <<"fallback", tag>>
    ELSE IF lse THEN <<(IF StartsWith(tag, code) THEN "ok" ELSE "collision"), tag>>
    ELSE <<(IF tag = code THEN "ok" ELSE "collision"), tag>>

\* the kab alternates are recognised by the prefix "ka"
Verdict_kab_prefix_short(code, tag, valid, lse) ==
    IF tag = None THEN <<"unk", NoHint>>
    ELSE IF ~valid THEN <<"unk", InvalidLocale(tag)>>
    ELSE IF code = oci /\ tag = oc THEN <<"alt", tag>>
    ELSE IF code = kab /\ StartsWith(tag, <<"k", "a">>) THEN <<"alt", tag>>
    ELSE IF code \in {oci, kab} /\ \E f \in FALLBACKS : StartsWith(tag, f)
         THEN <<"fallback", tag>>
    ELSE IF lse THEN <<(IF StartsWith(tag, code) THEN "ok" ELSE "collision"), tag>>
    ELSE <<(IF tag = code THEN "ok" ELSE "collision"), tag>>

\* the tag is validated after the alternate and fallback rules
Verdict_validity_late(code, tag, valid, lse) ==
    IF tag = None THEN <<"unk", NoHint>>
    ELSE IF code = oci /\ tag = oc THEN <<"alt", tag>>
    ELSE IF code = kab /\ StartsWith(tag, kab) THEN <<"alt", tag>>
    ELSE IF code \in {oci, kab} /\ \E f \in FALLBACKS : StartsWith(tag, f)
         THEN <<"fallback", tag>>
    ELSE IF ~valid THEN <<"unk", InvalidLocale(tag)>>
    ELSE IF lse THEN <<(IF StartsWith(tag, code) THEN "ok" ELSE "collision"), tag>>
    ELSE <<(IF tag = code THEN "ok" ELSE "collision"), tag>>

\* the two modes are exchanged
Verdict_modes_swapped(code, tag, valid, lse) ==
    IF tag = None THEN <<"unk", NoHint>>
    ELSE IF ~valid THEN <<"unk", InvalidLocale(tag)>>
    ELSE IF code = oci /\ tag = oc THEN <<"alt", tag>>
    ELSE IF code = kab /\ StartsWith(tag, kab) THEN <<"alt", tag>>
    ELSE IF code \in {oci, kab} /\ \E f \in FALLBACKS : StartsWith(tag, f)
         THEN <<"fallback", tag>>
    ELSE IF ~lse THEN <<(IF StartsWith(tag, code) THEN "ok" ELSE "collision"), tag>>
    ELSE <<(IF tag = code THEN "ok" ELSE "collision"), tag>>

\* lines 78-101: the entry stored for `code` when the request succeeded,
\* tag = locale_used(...) and valid = (_validated_lang(tag) is not None)
Verdict(code, tag, valid, lse) ==
    IF tag = None THEN <<"unk", NoHint>>
    ELSE IF ~valid THEN <<"unk", InvalidLocale(tag)>>
    ELSE IF code = oci /\ tag = oc THEN <<"alt", tag>>
    ELSE IF code = kab /\ StartsWith(tag, kab) THEN <<"alt", tag>>
    ELSE IF code \in {oci, kab} /\ \E f \in FALLBACKS : StartsWith(tag, f)
         THEN <<"fallback", tag>>
    ELSE IF lse THEN <<(IF StartsWith(tag, code) THEN "ok" ELSE "collision"), tag>>
    ELSE <<(IF tag = code THEN "ok" ELSE "collision"), tag>>

\* results[code] = entry
Store(res, code, entry) == (code :> entry) @@ res

(***************************************************************************)
(* Bounds                                                                  *)
(***************************************************************************)
\* the most fragments a response body of the extractor runs is built from
MaxFrags == 4
\* the most codes whose request fails with a transport error in one run
MaxFail == 2
\* the most probes of a batch that fail with something else
MaxCrash == 1

(***************************************************************************)
(* test_one, as run by interactive_mode or by a worker of report_mode      *)
(***************************************************************************)
Code(t) == CODES[idx[t]]
InLoop(t) == t \in jobs /\ phase[t] = "loop" /\ idx[t] <= Len(CODES)

\* the entry is stored and the loop goes to the next code
NextCode(t, entry) ==
    /\ results' = [results EXCEPT ![t] = Store(@, Code(t), entry)]
    /\ idx' = [idx EXCEPT ![t] = @ + 1]

\* a transport error ends the loop (break for continue)
TransportError_breaks(t) ==
    /\ InLoop(t)
    /\ Code(t) \in failing
    /\ results' = [results EXCEPT ![t] = Store(@, Code(t), <<"error", TransportMsg>>)]
    /\ idx' = [idx EXCEPT ![t] = Len(CODES) + 1]
    /\ UNCHANGED <<html, cookie, got, xpc, loose, server, failing, validTags, phase,
                   pending, cache, calls, answers, jobs, coord, consumed, report,
                   printed>>

\* lines 71-75: sess.get raises a requests.RequestException
TransportError(t) ==
    /\ InLoop(t)
    /\ Code(t) \in failing
    /\ NextCode(t, <<"error", TransportMsg>>)
    /\ UNCHANGED <<html, cookie, got, xpc, loose, server, failing, validTags, phase,
                   pending, cache, calls, answers, jobs, coord, consumed, report,
                   printed>>

\* lines 71-72: sess.get raises something that is no RequestException; nothing
\* in test_one or _job catches it, and the frame of test_one is unwound with
\* its results
Crash(t) ==
    /\ InLoop(t)
    /\ Cardinality({u \in jobs : phase[u] = "raised"}) < MaxCrash
    /\ phase' = [phase EXCEPT ![t] = "raised"]
    /\ idx' = [idx EXCEPT ![t] = 1]
    /\ results' = [results EXCEPT ![t] = <<>>]
    /\ UNCHANGED <<html, cookie, got, xpc, loose, server, failing, validTags,
                   pending, cache, calls, answers, jobs, coord, consumed,
                   report, printed>>

\* lines 72-101 with the request answered: the tag is extracted; without a tag
\* the entry is stored; with a cached tag the wrapper of _validated_lang
\* returns the cached result and the entry is stored; otherwise the wrapper
\* calls the function, and the call is in flight
Respond(t) ==
    /\ InLoop(t)
    /\ Code(t) \notin failing
    /\ LET tag == Served[server][Code(t)]
       IN  IF tag = None
           THEN /\ NextCode(t, Verdict(Code(t), tag, FALSE, loose))
                /\ UNCHANGED <<phase, pending, calls, answers>>
           ELSE IF tag \in DOMAIN cache
           THEN /\ NextCode(t, Verdict(Code(t), tag, cache[tag], loose))
                /\ answers' = [answers EXCEPT ![tag] = @ \cup {cache[tag]}]
                /\ UNCHANGED <<phase, pending, calls>>
           ELSE /\ phase' = [phase EXCEPT ![t] = "oracle"]
                /\ pending' = [pending EXCEPT ![t] = tag]
                /\ calls' = [calls EXCEPT ![tag] = @ + 1]
                /\ UNCHANGED <<idx, results, answers>>
    /\ UNCHANGED <<html, cookie, got, xpc, loose, server, failing, validTags, cache,
                   jobs, coord, consumed, report, printed>>

\* lines 49-54 and 81-101: the function returns, the wrapper stores its result
\* under the tag and returns it, and the entry is stored
OracleReturn(t) ==
    /\ t \in jobs
    /\ phase[t] = "oracle"
    /\ LET tag == pending[t]
           v   == OracleSays(tag)
       IN  /\ cache' = CachePut(cache, tag, v)
           /\ answers' = [answers EXCEPT ![tag] = @ \cup {v}]
           /\ NextCode(t, Verdict(Code(t), tag, v, loose))
    /\ phase' = [phase EXCEPT ![t] = "loop"]
    /\ pending' = [pending EXCEPT ![t] = None]
    /\ UNCHANGED <<html, cookie, got, xpc, loose, server, failing, validTags, calls,
                   jobs, coord, consumed, report, printed>>

\* line 102: return results
Return(t) ==
    /\ t \in jobs
    /\ phase[t] = "loop"
    /\ idx[t] > Len(CODES)
    /\ phase' = [phase EXCEPT ![t] = "returned"]
    /\ UNCHANGED <<html, cookie, got, xpc, loose, server, failing, validTags, idx,
                   results, pending, cache, calls, answers, jobs, coord, consumed,
                   report, printed>>

\* the state of the workers and of the validator before the first request
Idle(js) ==
    /\ jobs = js
    /\ phase = [t \in Combos |-> IF t \in js THEN "loop" ELSE "idle"]
    /\ idx = [t \in Combos |-> 1]
    /\ results = [t \in Combos |-> <<>>]
    /\ pending = [t \in Combos |-> None]
    /\ cache = <<>>
    /\ calls = [tag \in TagUniverse |-> 0]
    /\ answers = [tag \in TagUniverse |-> {}]
    /\ consumed = <<>>
    /\ report = <<>>
    /\ printed = <<>>

NoExtraction ==
    /\ html = <<>>
    /\ cookie = <<>>
    /\ got = None
    /\ xpc = "none"

FailSets == {F \in SUBSET CodeSet : Cardinality(F) <= MaxFail}

(***************************************************************************)
(* interactive_mode                                                        *)
(***************************************************************************)
\* lines 132-134: one row per code, in the order of CODES
PrintResults(t) ==
    /\ coord = "interactive"
    /\ t \in jobs
    /\ phase[t] = "returned"
    /\ printed' = [i \in 1 .. Len(CODES) |->
                     <<results[t][CODES[i]][1], CODES[i], results[t][CODES[i]][2]>>]
    /\ coord' = "done"
    /\ UNCHANGED <<html, cookie, got, xpc, loose, server, failing, validTags, phase,
                   idx, results, pending, cache, calls, answers, jobs, consumed,
                   report>>

\* choose_site and choose_device have returned one of the combinations
InitProbe ==
    /\ NoExtraction
    /\ loose \in BOOLEAN
    /\ server \in Servers
    /\ failing \in FailSets
    /\ validTags \in Oracles
    /\ \E t \in Combos : Idle({t})
    /\ coord = "interactive"

NextProbe ==
    \E t \in Combos :
        \/ TransportError(t)
        \/ Respond(t)
        \/ OracleReturn(t)
        \/ Return(t)
        \/ PrintResults(t)

SpecProbe == InitProbe /\ [][NextProbe]_vars

(***************************************************************************)
(* locale_used on its own                                                  *)
(***************************************************************************)
\* the pieces the response bodies of these runs are built from
Frags == { LtHtml,
           <<" ">> \o LangEq \o <<"\"", "d", "e", "\"">>,
           LangEq \o <<"'", "i", "t", "'">>,
           <<">">>,
           <<"<", "d", "i", "v">> }

RECURSIVE BodiesUpTo(_)
BodiesUpTo(n) ==
    IF n = 0 THEN {<<>>}
    ELSE LET B == BodiesUpTo(n - 1) IN B \cup {b \o f : b \in B, f \in Frags}

Bodies == BodiesUpTo(MaxFrags)

Cookies == { <<>>,
             AeLEq \o <<"f", "r">>,
             <<"x", "=", ";", " ">> \o AeLEq \o <<";", " ">> \o AeLEq
                 \o <<"f", "r", "-", "C", "A", ";", " ">> \o AeLEq \o <<"d", "e">> }

\* got = locale_used(html, cookie)
Extract ==
    /\ xpc = "call"
    /\ got' = locale_used(html, cookie)
    /\ xpc' = "done"
    /\ UNCHANGED <<html, cookie, loose, server, failing, validTags, phase, idx,
                   results, pending, cache, calls, answers, jobs, coord, consumed,
                   report, printed>>

InitExtract ==
    /\ html \in Bodies
    /\ cookie \in Cookies
    /\ got = None
    /\ xpc = "call"
    /\ loose = FALSE
    /\ server = [kind |-> "nohint", tag |-> None]
    /\ failing = {}
    /\ validTags = {}
    /\ Idle({})
    /\ coord = "none"

NextExtract == Extract

SpecExtract == InitExtract /\ [][NextExtract]_vars

(***************************************************************************)
(* report_mode                                                             *)
(***************************************************************************)
\* the key leaves the device out
ReportKey_without_device(t, code) == <<SITES[t[1]][1], code>>

\* the key of a report entry: (site_n, dev_n, code)
ReportKey(t, code) == <<SITES[t[1]][1], DEVICES[t[2]][1], code>>

\* lines 151-155: as_completed yields a future whose job returned, and its
\* oci and kab entries go into the report
Collect(t) ==
    /\ coord = "collect"
    /\ t \in jobs
    /\ phase[t] = "returned"
    /\ \A i \in 1 .. Len(consumed) : consumed[i] # t
    /\ consumed' = Append(consumed, t)
    /\ report' = Store(Store(report, ReportKey(t, oci), results[t][oci]),
                       ReportKey(t, kab), results[t][kab])
    /\ UNCHANGED <<html, cookie, got, xpc, loose, server, failing, validTags, phase,
                   idx, results, pending, cache, calls, answers, jobs, coord, printed>>

\* lines 151-152: as_completed yields a future whose job raised; fut.result()
\* raises it again, and the exception leaves the for loop
CollectRaise(t) ==
    /\ coord = "collect"
    /\ t \in jobs
    /\ phase[t] = "raised"
    /\ \A i \in 1 .. Len(consumed) : consumed[i] # t
    /\ consumed' = Append(consumed, t)
    /\ coord' = "shutdown"
    /\ UNCHANGED <<html, cookie, got, xpc, loose, server, failing, validTags, phase,
                   idx, results, pending, cache, calls, answers, jobs, report, printed>>

\* line 149: the with block is left by the exception; the pool waits for its
\* workers, and the exception leaves report_mode with nothing printed
PoolExit ==
    /\ coord = "shutdown"
    /\ \A t \in jobs : phase[t] \in {"returned", "raised"}
    /\ coord' = "raised"
    /\ UNCHANGED <<html, cookie, got, xpc, loose, server, failing, validTags, phase,
                   idx, results, pending, cache, calls, answers, jobs, consumed,
                   report, printed>>

\* line 167: the keys of the report whose label is collision
Collisions(rep) == {k \in DOMAIN rep : rep[k][1] = "collision"}

\* lines 157-173: every future was taken; the summary and the collisions are printed
Summarize ==
    /\ coord = "collect"
    /\ Len(consumed) = Cardinality(jobs)
    /\ printed' = [summary |-> {<<k, report[k]>> : k \in DOMAIN report},
                   collisions |-> Collisions(report)]
    /\ coord' = "done"
    /\ UNCHANGED <<html, cookie, got, xpc, loose, server, failing, validTags, phase,
                   idx, results, pending, cache, calls, answers, jobs, consumed,
                   report>>

\* the runs of report_mode that are explored: its argument, what the endpoints
\* serve, the codes whose requests fail, and the tags the oracle accepts
BatchRuns ==
    { [loose |-> FALSE, server |-> [kind |-> "fixed", tag |-> kab],
       failing |-> {}, validTags |-> TagUniverse],
      [loose |-> TRUE, server |-> [kind |-> "fixed", tag |-> en],
       failing |-> {oci}, validTags |-> TagUniverse],
      [loose |-> FALSE, server |-> [kind |-> "nohint", tag |-> None],
       failing |-> {kab}, validTags |-> {}] }

\* line 150: the four jobs are submitted to a pool of four workers
Init ==
    /\ NoExtraction
    /\ \E r \in BatchRuns :
        /\ loose = r.loose
        /\ server = r.server
        /\ failing = r.failing
        /\ validTags = r.validTags
    /\ Idle(Combos)
    /\ coord = "collect"

Next ==
    \/ \E t \in Combos :
        \/ TransportError(t)
        \/ Crash(t)
        \/ Respond(t)
        \/ OracleReturn(t)
        \/ Return(t)
        \/ Collect(t)
        \/ CollectRaise(t)
    \/ PoolExit
    \/ Summarize

Spec == Init /\ [][Next]_vars

(***************************************************************************)
(* Properties of the extractor                                             *)
(***************************************************************************)
\* a lang="<tag> or lang='<tag> marker starts at p
MarkerAt(s, p) ==
    /\ HasAt(s, p, LangEq)
    /\ p + 5 <= Len(s)
    /\ s[p + 5] \in Quote
    /\ p + 6 <= Len(s)
    /\ s[p + 6] \in TagChar

\* the letters and hyphens that follow position p - 1
TagFrom(s, p) ==
    CHOOSE tag \in {SubSeq(s, p, q) : q \in (p - 1) .. Len(s)} :
        /\ \A j \in 1 .. Len(tag) : tag[j] \in TagChar
        /\ (p + Len(tag) > Len(s) \/ s[p + Len(tag)] \notin TagChar)

\* the marker at p is an attribute of the tag that <html opens at i
InHtmlTag(s, i, p) ==
    /\ HasAt(s, i, LtHtml)
    /\ i + 5 <= p
    /\ \A j \in (i + 5) .. (p - 1) : s[j] # ">"
    /\ MarkerAt(s, p)
    /\ WordBoundary(s, p)

\* the tag of the first ae=l=<tag> of the cookie header, None without one
FirstCookieTag(c) ==
    IF \E p \in 1 .. Len(c) : HasAt(c, p, AeLEq) /\ p + 5 <= Len(c) /\ c[p + 5] \in TagChar
    THEN LET p == CHOOSE q \in 1 .. Len(c) :
                    /\ HasAt(c, q, AeLEq) /\ q + 5 <= Len(c) /\ c[q + 5] \in TagChar
                    /\ \A r \in 1 .. (q - 1) :
                         ~(HasAt(c, r, AeLEq) /\ r + 5 <= Len(c) /\ c[r + 5] \in TagChar)
         IN  TagFrom(c, p + 5)
    ELSE None

Labels == {"ok", "alt", "fallback", "collision", "unk", "error"}

\* the tag served for the code, and what the oracle says of it
TagFor(c) == Served[server][c]
ValidFor(c) == TagFor(c) \in validTags

\* the entries test_one has stored for requests that were answered
Answered == {<<t, c>> \in jobs \X CodeSet : c \in DOMAIN results[t] /\ c \notin failing}

\* the alternate rule and the fallback rule apply to (code, tag)
IsAlternate(c, tag) == (c = oci /\ tag = oc) \/ (c = kab /\ StartsWith(tag, kab))
IsFallback(c, tag) == c \in {oci, kab} /\ StartsWith(tag, en)

\* C3: whatever codes fail with a transport error, a probe that has returned
\* has exactly one entry per code of the table; the failed codes carry the
\* label error and every other code carries the verdict of its own response.
C3_OneOutcomePerCode ==
    \A t \in jobs :
        /\ DOMAIN results[t] \subseteq CodeSet
        /\ phase[t] = "returned" =>
            /\ DOMAIN results[t] = CodeSet
            /\ Cardinality(DOMAIN results[t]) = 10
            /\ \A c \in CodeSet :
                /\ results[t][c][1] \in Labels
                /\ c \in failing => results[t][c][1] = "error"
                /\ c \notin failing =>
                     results[t][c] = Verdict(c, TagFor(c), ValidFor(c), loose)

\* a probe has returned although the requests of oci and kat failed, and kab
\* and kaz got the verdict of their responses
C3_Witness ==
    \E t \in jobs :
        /\ phase[t] = "returned"
        /\ failing = {oci, kat}
        /\ server.kind = "echo"
        /\ results[t][oci][1] = "error"
        /\ results[t][kat][1] = "error"
        /\ results[t][kab] = <<"alt", kab>>
        /\ results[t][kaz] = <<"ok", kaz>>

\* C4: alt and fallback label only oci and kab; every other code gets ok,
\* collision, unk or error.
C4_LabelScope ==
    \A t \in jobs : \A c \in DOMAIN results[t] :
        /\ results[t][c][1] \in Labels
        /\ c \notin {oci, kab} => results[t][c][1] \in {"ok", "collision", "unk", "error"}

\* kam was served the valid tag en-US and kab the same tag: collision and fallback
C4_Witness ==
    \E t \in jobs :
        /\ phase[t] = "returned"
        /\ results[t][kam] = <<"collision", enUS>>
        /\ results[t][kab] = <<"fallback", enUS>>

\* C6 as stated: a valid tag that differs from the code, does not start with
\* it and does not start with en is a collision, for every code.
C6_CollisionRule ==
    \A e \in Answered :
        LET c == e[2]  tag == TagFor(c) IN
        (/\ tag # None
         /\ ValidFor(c)
         /\ tag # c
         /\ ~StartsWith(tag, c)
         /\ ~StartsWith(tag, en))
        => results[e[1]][c] = <<"collision", tag>>

\* C6, amended: the same, except for oci served the tag oc, which is an
\* alternate and not a collision.
C6_CollisionRuleButAlternate ==
    \A e \in Answered :
        LET c == e[2]  tag == TagFor(c) IN
        (/\ tag # None
         /\ ValidFor(c)
         /\ tag # c
         /\ ~StartsWith(tag, c)
         /\ ~StartsWith(tag, en)
         /\ ~(c = oci /\ tag = oc))
        => results[e[1]][c] = <<"collision", tag>>

\* oci, kab and kat were served the valid tag ka and are collisions
C6_Witness ==
    \E t \in jobs :
        /\ phase[t] = "returned"
        /\ ValidFor(kab)
        /\ results[t][oci] = <<"collision", ka>>
        /\ results[t][kab] = <<"collision", ka>>
        /\ results[t][kat] = <<"collision", ka>>

\* C7: the first applicable rule decides: no tag, invalid tag, alternate,
\* fallback, and only then the comparison with the code.
C7_RulePrecedence ==
    \A e \in Answered :
        LET c == e[2]  tag == TagFor(c)  r == results[e[1]][c] IN
        /\ tag = None => r = <<"unk", NoHint>>
        /\ (tag # None /\ ~ValidFor(c)) => r = <<"unk", InvalidLocale(tag)>>
        /\ (tag # None /\ ValidFor(c) /\ IsAlternate(c, tag)) => r = <<"alt", tag>>
        /\ (tag # None /\ ValidFor(c) /\ ~IsAlternate(c, tag) /\ IsFallback(c, tag))
             => r = <<"fallback", tag>>
        /\ (tag # None /\ ValidFor(c) /\ ~IsAlternate(c, tag) /\ ~IsFallback(c, tag))
             => r[1] \in {"ok", "collision"} /\ r[2] = tag

\* in strict mode oci was served the valid tag oc: alt, with oc as evidence
C7_Witness ==
    \E t \in jobs :
        /\ phase[t] = "returned"
        /\ ~loose
        /\ results[t][oci] = <<"alt", oc>>
        /\ results[t][kab] = <<"collision", oc>>

\* C8: where neither the alternate nor the fallback rule applies to a valid
\* tag, strict mode says ok iff the tag equals the code and loose mode iff the
\* tag starts with the code, collision otherwise, with the tag as evidence;
\* the verdicts of the two modes differ exactly when the tag is a proper
\* extension of the code.
C8_LooseVsStrict ==
    \A e \in Answered :
        LET c == e[2]  tag == TagFor(c)  r == results[e[1]][c] IN
        (tag # None /\ ValidFor(c) /\ ~IsAlternate(c, tag) /\ ~IsFallback(c, tag)) =>
            /\ r[2] = tag
            /\ loose => (r[1] = (IF StartsWith(tag, c) THEN "ok" ELSE "collision"))
            /\ ~loose => (r[1] = (IF tag = c THEN "ok" ELSE "collision"))
            /\ (Verdict(c, tag, TRUE, TRUE) # Verdict(c, tag, TRUE, FALSE))
                 <=> (StartsWith(tag, c) /\ tag # c)
            /\ Verdict(c, tag, TRUE, FALSE)[1] = "ok" => Verdict(c, tag, TRUE, TRUE)[1] = "ok"

\* in loose mode kat was served the valid tag kat-GE: ok
C8_Witness ==
    \E t \in jobs :
        /\ phase[t] = "returned"
        /\ loose
        /\ results[t][kat] = <<"ok", kat \o GE>>
        /\ Verdict(kat, kat \o GE, TRUE, FALSE) = <<"collision", kat \o GE>>

AllReportKeys ==
    {<<site, dev, c>> : site \in {"DuckDuckGo", "Nextcloud"},
                        dev \in {"desktop", "mobile"}, c \in {oci, kab}}

\* the targets whose future as_completed has yielded
Taken == {consumed[i] : i \in 1 .. Len(consumed)}

\* C1: a batch that reaches its summary has a report of exactly 2 x 4
\* entries, the oci and the kab entry of every target, in whatever order the
\* workers completed; until then the report holds the two entries of every
\* future taken so far, and the batch leaves the collection only for the
\* summary unless a probe raised.
C1_BatchComplete ==
    /\ coord \in {"shutdown", "raised"} => \E t \in jobs : phase[t] = "raised"
    /\ coord = "collect" =>
         /\ Cardinality(DOMAIN report) = 2 * Len(consumed)
         /\ DOMAIN report = {<<SITES[t[1]][1], DEVICES[t[2]][1], c>> :
                                t \in Taken, c \in {oci, kab}}
    /\ coord = "done" =>
         /\ DOMAIN report = AllReportKeys
         /\ Cardinality(DOMAIN report) = 2 * Cardinality(jobs)
         /\ \A t \in jobs : \A c \in {oci, kab} :
              report[<<SITES[t[1]][1], DEVICES[t[2]][1], c>>] = results[t][c]

\* the batch has reached its summary with the futures taken in the reverse of
\* the order of submission, one entry of each target a transport error
C1_Witness ==
    /\ coord = "done"
    /\ consumed = <<(<<"2", "2">>), (<<"2", "1">>), (<<"1", "2">>), (<<"1", "1">>)>>
    /\ Cardinality(DOMAIN report) = 8
    /\ report[<<"Nextcloud", "mobile", oci>>][1] = "error"
    /\ report[<<"Nextcloud", "mobile", kab>>] = <<"fallback", en>>

\* C2 as stated: when a probe fails with something that is no transport
\* error, the batch is not aborted: at its end the report holds the entries
\* of every probe that returned, and a row for the probe that failed.
C2_FailureIsolated ==
    coord \in {"done", "raised"} =>
        /\ coord = "done"
        /\ \A t \in jobs : \A c \in {oci, kab} :
             /\ <<SITES[t[1]][1], DEVICES[t[2]][1], c>> \in DOMAIN report
             /\ phase[t] = "returned" =>
                  report[<<SITES[t[1]][1], DEVICES[t[2]][1], c>>] = results[t][c]

\* C9 as stated: every validation of a tag returns the same result and the
\* oracle is invoked at most once per tag, also when probes validate the
\* same uncached tag at the same time.
C9_OracleOncePerTag ==
    \A tag \in TagUniverse :
        /\ Cardinality(answers[tag]) <= 1
        /\ calls[tag] <= 1

\* C9, amended: every validation of a tag returns the same result, the one
\* that is cached; the oracle is invoked only by a probe that finds the tag
\* uncached, so at most as many times per tag as there are probes (4).
C9_OracleOncePerTagAndProbe ==
    \A tag \in TagUniverse :
        /\ Cardinality(answers[tag]) <= 1
        /\ answers[tag] \subseteq {tag \in validTags}
        /\ tag \in DOMAIN cache => (calls[tag] >= 1 /\ cache[tag] = (tag \in validTags))
        /\ calls[tag] <= Cardinality(jobs)
        /\ Cardinality({t \in jobs : pending[t] = tag}) <= calls[tag]

\* the four probes validated the uncached tag en at the same time: four calls
\* of the oracle, one result, and later validations answered from the cache
C9_Witness ==
    /\ calls[en] = 4
    /\ en \in DOMAIN cache
    /\ answers[en] = {TRUE}
    /\ \A t \in jobs : phase[t] = "returned"

====
